---- MODULE Spec2Model ----
(***************************************************************************)
(* Agentic AI churn system: the cycle orchestrator of main.py, the         *)
(* reasoning pipeline of agent_reasoning.py and the dispatch of            *)
(* actions_module.py.                                                      *)
(*                                                                         *)
(* Python values are modelled with their shape: a dict is a function from  *)
(* its keys, a pandas DataFrame and a Python list carry a type tag, since  *)
(* the code calls methods that exist on only one of them.  Confidence and  *)
(* probabilities are in hundredths (0.5 is 50).  A call that raises is a   *)
(* result with ok = FALSE.                                                 *)
(***************************************************************************)
EXTENDS Integers, Sequences, FiniteSets, TLC

VARIABLES pc, cycle_results, churn_predictions, anomalies, kpi_context, idx,
          calls, clients, last

vars == <<pc, cycle_results, churn_predictions, anomalies, kpi_context, idx,
          calls, clients, last>>

(* ------------------------------ bounds -------------------------------- *)

MaxRecords == 1
MaxPredictions == 2
MaxAnomalies == 1
MaxWords == 2
MaxUnitCalls == 2
MaxCycles == 2

(* ------------------------------ values -------------------------------- *)

None == [none |-> TRUE]
EmptyDict == <<>>

HasKey(d, k) == k \in DOMAIN d
Get(d, k, default) == IF HasKey(d, k) THEN d[k] ELSE default

Update(d, u) == u @@ d

Ok(v) == [ok |-> TRUE, val |-> v]
Raise(e) == [ok |-> FALSE, exc |-> e]

DataFrame(rows) == [type |-> "DataFrame", rows |-> rows]
PyList(rows) == [type |-> "list", rows |-> rows]
PyLen(v) == Len(v.rows)
HasIterrows(v) == v.type = "DataFrame"

CustomerIds == <<"c1", "c2", "c3", "c4">>

RECURSIVE SeqsUpTo(_, _)
SeqsUpTo(S, n) ==
    IF n = 0 THEN {<<>>}
    ELSE LET shorter == SeqsUpTo(S, n - 1)
         IN shorter \cup {Append(s, x) : s \in {t \in shorter : Len(t) = n - 1}, x \in S}

(* ------------------------ reasoning backend --------------------------- *)

Words == {"critical", "severe", "urgent", "high", "significant", "medium",
          "moderate", "slack", "jira", "ticket", "email",
          "CRITICAL", "Jira", "Slack", "hello"}

Lower(w) ==
    CASE w = "CRITICAL" -> "critical"
      [] w = "Jira" -> "jira"
      [] w = "Slack" -> "slack"
      [] OTHER -> w

Texts == SeqsUpTo(Words, MaxWords)

Contains(content_lower, word) == \E i \in 1..Len(content_lower) : content_lower[i] = word
LowerText(content) == [i \in 1..Len(content) |-> Lower(content[i])]

Confidences == {-20, 0, 85, 100, 150}

RootCauseRecords ==
    [primary_cause : {"Decreased engagement"},
     contributing_factors : {<<"few logins">>},
     severity : {"critical", "low", "catastrophic"},
     recommended_actions : {<<"call customer">>},
     confidence : Confidences]

ActionRecords ==
    [action_type : {"slack_alert", "jira_ticket", "email", "none", "sms"},
     priority : {"high", "low"},
     reason : {"High churn risk"},
     action_details : {EmptyDict},
     confidence : Confidences]

(* What self.llm.invoke and the output parser can do: the call raises; the  *)
(* content parses strictly into a record; the content is text that fails   *)
(* the strict parse; the content is a list of content blocks, not a str.   *)
Failure == [kind |-> "fail"]
Structured(rec) == [kind |-> "structured", rec |-> rec]
Freeform(text) == [kind |-> "freeform", text |-> text]
Blocks == [kind |-> "blocks"]

DiagnoserResponses ==
    {Failure, Blocks} \cup {Structured(r) : r \in RootCauseRecords}
                      \cup {Freeform(t) : t \in Texts}
SelectorResponses ==
    {Failure, Blocks} \cup {Structured(r) : r \in ActionRecords}
                      \cup {Freeform(t) : t \in Texts}

(* ------------------------- agent_reasoning.py ------------------------- *)

FailedRootCause_low ==
    [primary_cause |-> "Analysis failed",
     contributing_factors |-> <<>>,
     severity |-> "low",
     recommended_actions |-> <<>>,
     confidence |-> 50]

FailedRootCause ==
    [primary_cause |-> "Analysis failed",
     contributing_factors |-> <<>>,
     severity |-> "unknown",
     recommended_actions |-> <<>>,
     confidence |-> 0]

FailedAction_email ==
    [action_type |-> "email",
     priority |-> "low",
     reason |-> "Analysis failed",
     action_details |-> EmptyDict,
     confidence |-> 0]

FailedAction ==
    [action_type |-> "none",
     priority |-> "low",
     reason |-> "Analysis failed",
     action_details |-> EmptyDict,
     confidence |-> 0]

AnyWord(content_lower, words) == \E w \in words : Contains(content_lower, w)

fallback_severity_high_first(content_lower) ==
    IF AnyWord(content_lower, {"high", "significant"}) THEN "high"
    ELSE IF AnyWord(content_lower, {"critical", "severe", "urgent"}) THEN "critical"
    ELSE IF AnyWord(content_lower, {"medium", "moderate"}) THEN "medium"
    ELSE "low"

fallback_severity(content_lower) ==
    IF AnyWord(content_lower, {"critical", "severe", "urgent"}) THEN "critical"
    ELSE IF AnyWord(content_lower, {"high", "significant"}) THEN "high"
    ELSE IF AnyWord(content_lower, {"medium", "moderate"}) THEN "medium"
    ELSE "low"

fallback_action_type_email_first(content_lower) ==
    IF Contains(content_lower, "slack") THEN "slack_alert"
    ELSE IF Contains(content_lower, "email") THEN "email"
    ELSE IF Contains(content_lower, "jira") \/ Contains(content_lower, "ticket")
         THEN "jira_ticket"
    ELSE "none"

fallback_action_type(content_lower) ==
    IF Contains(content_lower, "slack") THEN "slack_alert"
    ELSE IF Contains(content_lower, "jira") \/ Contains(content_lower, "ticket")
         THEN "jira_ticket"
    ELSE IF Contains(content_lower, "email") THEN "email"
    ELSE "none"

fallback_priority_medium_first(content_lower) ==
    IF AnyWord(content_lower, {"medium", "moderate"}) THEN "medium"
    ELSE IF AnyWord(content_lower, {"high", "urgent", "critical"}) THEN "high"
    ELSE "low"

fallback_priority(content_lower) ==
    IF AnyWord(content_lower, {"high", "urgent", "critical"}) THEN "high"
    ELSE IF AnyWord(content_lower, {"medium", "moderate"}) THEN "medium"
    ELSE "low"

(* response.content.lower() raises on a content that is not a str; the     *)
(* handler of the fallback then returns the failure record.                *)
parse_root_cause_fallback_scored(response) ==
    IF response.kind # "freeform" THEN FailedRootCause
    ELSE LET content_lower == LowerText(response.text)
             severity == fallback_severity(content_lower)
         IN [primary_cause |-> "Analysis completed (fallback parsing)",
             contributing_factors |-> <<"Unable to parse specific factors">>,
             severity |-> severity,
             recommended_actions |-> <<"Review customer manually">>,
             confidence |-> IF severity = "low" THEN 50 ELSE 85]

parse_root_cause_fallback(response) ==
    IF response.kind # "freeform" THEN FailedRootCause
    ELSE LET content_lower == LowerText(response.text)
         IN [primary_cause |-> "Analysis completed (fallback parsing)",
             contributing_factors |-> <<"Unable to parse specific factors">>,
             severity |-> fallback_severity(content_lower),
             recommended_actions |-> <<"Review customer manually">>,
             confidence |-> 50]

parse_action_fallback(response) ==
    IF response.kind # "freeform" THEN FailedAction
    ELSE LET content_lower == LowerText(response.text)
         IN [action_type |-> fallback_action_type(content_lower),
             priority |-> fallback_priority(content_lower),
             reason |-> "Analysis completed (fallback parsing)",
             action_details |-> EmptyDict,
             confidence |-> 50]

(* The prompt is formatted inside the try block: a context without the     *)
(* key 'prediction_metrics' raises KeyError there, before the backend is   *)
(* called, and the handler returns the failure record.                     *)
PromptKeys == {"customer_metrics", "prediction_metrics", "kpi_metrics"}
ActionPromptKeys == {"customer_metrics", "prediction_metrics"}

analyze_root_cause_unguarded(analysis_context, response) ==
    IF ~(PromptKeys \subseteq DOMAIN analysis_context) THEN Raise("KeyError")
    ELSE IF response.kind = "fail" THEN FailedRootCause
    ELSE IF response.kind = "structured" THEN response.rec
    ELSE parse_root_cause_fallback(response)

analyze_root_cause(analysis_context, response) ==
    IF ~(PromptKeys \subseteq DOMAIN analysis_context) THEN FailedRootCause
    ELSE IF response.kind = "fail" THEN FailedRootCause
    ELSE IF response.kind = "structured" THEN response.rec
    ELSE parse_root_cause_fallback(response)

determine_action_clamped(analysis_context, root_cause, response) ==
    IF ~(ActionPromptKeys \subseteq DOMAIN analysis_context) THEN FailedAction
    ELSE IF response.kind = "fail" THEN FailedAction
    ELSE IF response.kind = "structured"
    THEN [response.rec EXCEPT
             !.confidence = IF @ > 100 THEN 100 ELSE IF @ < 0 THEN 0 ELSE @]
    ELSE parse_action_fallback(response)

(* _determine_action, agent_reasoning.py 208-276: a strict parse returns   *)
(* action_decision.dict() as the backend reported it.                      *)
determine_action(analysis_context, root_cause, response) ==
    IF ~(ActionPromptKeys \subseteq DOMAIN analysis_context) THEN FailedAction
    ELSE IF response.kind = "fail" THEN FailedAction
    ELSE IF response.kind = "structured" THEN response.rec
    ELSE parse_action_fallback(response)

(* ----------------------------- contexts ------------------------------- *)

CustomerMetricKeys ==
    {"customer_id", "monthly_revenue", "total_revenue", "days_since_last_login",
     "login_frequency_30d", "purchase_frequency_30d", "support_tickets_30d",
     "feature_usage_count"}

(* The row get_customer_context returns for a customer the warehouse knows. *)
CustomerRow(customer_id) ==
    [customer_id |-> customer_id,
     subscription_id |-> "s1",
     monthly_revenue |-> 500,
     total_revenue |-> 6000,
     days_since_last_login |-> 15,
     login_frequency_30d |-> 2,
     purchase_frequency_30d |-> 1,
     support_tickets_30d |-> 3,
     feature_usage_count |-> 4]

(* get_churn_kpis: one entry per Look, None for a Look that failed.        *)
KpiSnapshot ==
    [kpis |-> [monthly_churn_rate |-> [look_id |-> "l1", data |-> 5],
               revenue_churn |-> None],
     fetched_at |-> "now"]

Truthy(v) == v # None /\ v # EmptyDict

kpi_metrics_of(kpi) ==
    IF Truthy(kpi) /\ HasKey(kpi, "kpis")
    THEN LET kept == {n \in DOMAIN kpi.kpis :
                         Truthy(kpi.kpis[n]) /\ HasKey(kpi.kpis[n], "data")}
         IN [n \in kept |-> kpi.kpis[n].data]
    ELSE EmptyDict

(* predicted_churned_flag_probs[1] raises on a vector shorter than two.    *)
prepare_analysis_context(customer_data, prediction_data, kpi) ==
    LET probs == Get(prediction_data, "predicted_churned_flag_probs", <<0, 0>>)
    IN IF Len(probs) < 2 THEN Raise("IndexError")
       ELSE Ok([customer_metrics |->
                    [k \in CustomerMetricKeys |-> Get(customer_data, k, None)],
                prediction_metrics |->
                    [churn_probability |-> probs[2],
                     predicted_churn |-> Get(prediction_data, "predicted_churned_flag", 0)],
                kpi_metrics |-> kpi_metrics_of(kpi),
                analysis_timestamp |-> "now"])

(* kpi_context.get raises on None.                                         *)
prepare_anomaly_context(customer_data, anomaly_data, kpi) ==
    IF kpi = None THEN Raise("AttributeError")
    ELSE Ok([customer_metrics |-> customer_data,
             anomaly_metrics |->
                 [z_score |-> Get(anomaly_data, "z_score", None),
                  anomaly_flag |-> Get(anomaly_data, "anomaly_flag", None),
                  metric_value |-> Get(anomaly_data, "metric_value", None)],
             kpi_metrics |-> Get(kpi, "kpis", EmptyDict),
             analysis_timestamp |-> "now"])

(* analyze_churn_risk and analyze_anomaly re-raise what context assembly   *)
(* raises; the Diagnoser and the Selector never raise.                     *)
analyze_churn_risk(customer_data, prediction_data, kpi, r1, r2) ==
    LET ctx == prepare_analysis_context(customer_data, prediction_data, kpi)
    IN IF ~ctx.ok THEN ctx
       ELSE LET root_cause == analyze_root_cause(ctx.val, r1)
            IN Ok([customer_id |-> Get(customer_data, "customer_id", None),
                   root_cause_analysis |-> root_cause,
                   action_decision |-> determine_action(ctx.val, root_cause, r2),
                   analysis_context |-> ctx.val])

analyze_anomaly(customer_data, anomaly_data, kpi, r1, r2) ==
    LET ctx == prepare_anomaly_context(customer_data, anomaly_data, kpi)
    IN IF ~ctx.ok THEN ctx
       ELSE LET root_cause == analyze_root_cause(ctx.val, r1)
            IN Ok([customer_id |-> Get(customer_data, "customer_id", None),
                   anomaly_type |-> Get(anomaly_data, "anomaly_flag", None),
                   z_score |-> Get(anomaly_data, "z_score", None),
                   root_cause_analysis |-> root_cause,
                   action_decision |-> determine_action(ctx.val, root_cause, r2),
                   analysis_context |-> ctx.val])

(* -------------------------- actions_module.py ------------------------- *)

Channels == {"slack_alert", "jira_ticket", "email"}

send_channel_disabled(action_type, initialised, channel_ok) ==
    IF action_type \notin initialised
    THEN [action_type |-> action_type, status |-> "skipped",
          reason |-> "client not initialized"]
    ELSE IF channel_ok
    THEN [action_type |-> action_type, status |-> "success"]
    ELSE [action_type |-> action_type, status |-> "failed", reason |-> "channel error"]

(* _send_slack_alert, _create_jira_ticket, _send_email: failed without a   *)
(* client, failed when the channel call raises, success otherwise.         *)
send_channel(action_type, initialised, channel_ok) ==
    IF action_type \notin initialised
    THEN [action_type |-> action_type, status |-> "failed",
          reason |-> "client not initialized"]
    ELSE IF channel_ok
    THEN [action_type |-> action_type, status |-> "success"]
    ELSE [action_type |-> action_type, status |-> "failed", reason |-> "channel error"]

execute_action(action_decision, customer_data, initialised, channel_ok) ==
    LET action_type == Get(action_decision, "action_type", "none")
        priority == Get(action_decision, "priority", "low")
        result ==
            IF action_type \in Channels
            THEN send_channel(action_type, initialised, channel_ok)
            ELSE IF action_type = "none"
            THEN [action_type |-> "none", status |-> "skipped",
                  reason |-> "No action required"]
            ELSE [action_type |-> action_type, status |-> "failed",
                  reason |-> "Unknown action type"]
    IN Update(result, [customer_id |-> Get(customer_data, "customer_id", None),
                       priority |-> priority,
                       confidence |-> Get(action_decision, "confidence", 0)])

(* ------------------------- bigquery_module.py ------------------------- *)

(* get_customer_context: the first row, or {} when the query finds no row  *)
(* or raises.                                                              *)
LookupOutcomes == {"row", "empty", "raise"}

get_customer_context_propagating(customer_id, outcome) ==
    IF outcome = "row" THEN CustomerRow(customer_id)
    ELSE IF outcome = "empty" THEN EmptyDict
    ELSE Raise("BigQueryError")

get_customer_context(customer_id, outcome) ==
    IF outcome = "row" THEN CustomerRow(customer_id) ELSE EmptyDict

ProbVectors == {<<30>>, <<30, 70>>}

PredictionRow(i, probs) ==
    [customer_id |-> CustomerIds[i],
     predicted_churned_flag |-> 1,
     predicted_churned_flag_probs |-> probs]

PredictionFrames ==
    {DataFrame([i \in 1..Len(ps) |-> PredictionRow(i, ps[i])]) :
        ps \in SeqsUpTo(ProbVectors, MaxPredictions)}

AnomalyRow(j) ==
    [customer_id |-> CustomerIds[j], z_score |-> 3, anomaly_flag |-> "ANOMALY"]

AnomalyFrame(n) == DataFrame([j \in 1..n |-> AnomalyRow(j)])

(* ------------------------------ main.py ------------------------------- *)

metrics_to_monitor ==
    <<"login_frequency_30d", "purchase_frequency_30d", "support_tickets_30d",
      "monthly_revenue">>

RECURSIVE TotalRows(_, _)
TotalRows(outcomes, m) ==
    IF m = 0 THEN 0
    ELSE TotalRows(outcomes, m - 1) + (IF outcomes[m].ok THEN PyLen(outcomes[m].val) ELSE 0)

(* What detect_anomalies does for each monitored metric: it raises or it   *)
(* returns a frame; at most MaxAnomalies rows over all the metrics.        *)
DetectOutcomes ==
    {outcomes \in [1..Len(metrics_to_monitor) ->
                      {Raise("detect")} \cup {Ok(AnomalyFrame(n)) : n \in 0..MaxAnomalies}] :
        TotalRows(outcomes, Len(metrics_to_monitor)) <= MaxAnomalies}

TagMetric(frame, metric) ==
    [j \in 1..Len(frame.rows) |-> Update(frame.rows[j], [metric_name |-> metric])]

RECURSIVE collect_anomalies(_, _)
collect_anomalies(outcomes, m) ==
    IF m = 0 THEN <<>>
    ELSE collect_anomalies(outcomes, m - 1) \o
         (IF ~outcomes[m].ok THEN <<>>
          ELSE TagMetric(outcomes[m].val, metrics_to_monitor[m]))

detect_all_anomalies_all_or_nothing(outcomes) ==
    IF \E m \in 1..Len(metrics_to_monitor) : ~outcomes[m].ok
    THEN PyList(<<>>)
    ELSE PyList(collect_anomalies(outcomes, Len(metrics_to_monitor)))

(* _detect_all_anomalies returns the Python list it appended to.           *)
detect_all_anomalies(outcomes) ==
    PyList(collect_anomalies(outcomes, Len(metrics_to_monitor)))

NewCycleResults ==
    [cycle_start |-> "t0",
     customers_analyzed |-> 0,
     churn_predictions |-> 0,
     anomalies_detected |-> 0,
     actions_executed |-> 0,
     successful_actions |-> 0,
     failed_actions |-> 0,
     errors |-> <<>>]

AppendError(cr, msg) == [cr EXCEPT !.errors = Append(@, msg)]

CriticalError_finalizing(cr, e) ==
    Update(AppendError(cr, <<"Critical error in churn analysis cycle", e>>),
           [cycle_end |-> "t1", cycle_duration_seconds |-> 1])

CriticalError_reset(cr, e) ==
    AppendError([k \in DOMAIN cr |-> IF k \in {"cycle_start", "errors"} THEN cr[k] ELSE 0],
                <<"Critical error in churn analysis cycle", e>>)

CriticalError_escaping(cr, e) == Raise(e)

CriticalError(cr, e) == AppendError(cr, <<"Critical error in churn analysis cycle", e>>)

Finalize(cr) == Update(cr, [cycle_end |-> "t1", cycle_duration_seconds |-> 1])

(* The action type the Selector decides on a response, when the prompt     *)
(* could be formatted.                                                     *)
DecidedType(r2) ==
    determine_action([customer_metrics |-> EmptyDict, prediction_metrics |-> EmptyDict],
                     FailedRootCause, r2).action_type

(* What the collaborators do during one item: the customer-detail lookup,  *)
(* the two backend calls, the channel call and the outcome log.  When the  *)
(* lookup yields no row the other collaborators are not reached; nor is    *)
(* the log when the decision is none, nor a channel when the decision      *)
(* names none of them.                                                     *)
ItemOracles(R1, R2) ==
    {o \in [detail : {"row"}, r1 : R1, r2 : R2, channel_ok : BOOLEAN, log_ok : BOOLEAN] :
        /\ DecidedType(o.r2) = "none" => o.log_ok
        /\ DecidedType(o.r2) \notin Channels => o.channel_ok}
    \cup [detail : LookupOutcomes \ {"row"}, r1 : {Failure}, r2 : {Failure},
          channel_ok : {TRUE}, log_ok : {TRUE}]

(* bigquery_module.log_action_outcome, 236-267: the insert raises when the *)
(* warehouse refuses it, and the method re-raises.                         *)
bq_log_action_outcome(log_ok) == IF log_ok THEN Ok(None) ELSE Raise("LogError")

log_action_outcome_reraising(log_ok) == bq_log_action_outcome(log_ok)

(* main._log_action_outcome, 235-256: the whole body is in a try whose     *)
(* handler only writes to the application log.                             *)
log_action_outcome(log_ok) ==
    LET logged == bq_log_action_outcome(log_ok)
    IN IF logged.ok THEN logged ELSE Ok(None)

count_outcome_success_only(cr, action_result) ==
    IF Get(action_result, "status", None) = "success"
    THEN [cr EXCEPT !.successful_actions = @ + 1]
    ELSE cr

count_outcome_always_success(cr, action_result) ==
    [cr EXCEPT !.successful_actions = @ + 1]

count_outcome(cr, action_result) ==
    IF Get(action_result, "status", None) = "success"
    THEN [cr EXCEPT !.successful_actions = @ + 1]
    ELSE [cr EXCEPT !.failed_actions = @ + 1]

skip_item_counted(cr, looked) ==
    [ok |-> TRUE, cycle_results |-> [cr EXCEPT !.failed_actions = @ + 1], events |-> looked]

(* The early return of main.py 166-168 and 205-207.                        *)
skip_item(cr, looked) == [ok |-> TRUE, cycle_results |-> cr, events |-> looked]

act_on_analysis_uncounted(kind, i, analysis_result, customer_data, cr, o) ==
    LET action_decision == Get(analysis_result, "action_decision", EmptyDict)
        action_type == Get(action_decision, "action_type", None)
        seen == <<<<"diagnose", kind, i>>, <<"select", kind, i, action_type>>>>
    IN IF action_type # "none"
       THEN LET action_result ==
                    execute_action(action_decision, customer_data, clients, o.channel_ok)
                logged == log_action_outcome(o.log_ok)
            IN [ok |-> logged.ok,
                exc |-> Get(logged, "exc", None),
                cycle_results |-> count_outcome(cr, action_result),
                events |-> seen \o <<<<"dispatch", kind, i, action_result.status>>,
                                     <<"log", kind, i>>>>]
       ELSE [ok |-> TRUE, cycle_results |-> cr, events |-> seen]

(* The part of _process_customer_risk and _process_anomaly after the       *)
(* analysis: main.py 177-194 and 216-233.                                  *)
act_on_analysis(kind, i, analysis_result, customer_data, cr, o) ==
    LET action_decision == Get(analysis_result, "action_decision", EmptyDict)
        action_type == Get(action_decision, "action_type", None)
        seen == <<<<"diagnose", kind, i>>, <<"select", kind, i, action_type>>>>
    IN IF action_type # "none"
       THEN LET action_result ==
                    execute_action(action_decision, customer_data, clients, o.channel_ok)
                logged == log_action_outcome(o.log_ok)
            IN [ok |-> logged.ok,
                exc |-> Get(logged, "exc", None),
                cycle_results |->
                    count_outcome([cr EXCEPT !.actions_executed = @ + 1], action_result),
                events |-> seen \o <<<<"dispatch", kind, i, action_result.status>>,
                                     <<"log", kind, i>>>>]
       ELSE [ok |-> TRUE, cycle_results |-> cr, events |-> seen]

process_customer_risk(customer_prediction, i, kpi, cr, o) ==
    LET customer_id == Get(customer_prediction, "customer_id", None)
        customer_data == get_customer_context(customer_id, o.detail)
        looked == <<<<"lookup", "risk", i, customer_data # EmptyDict>>>>
    IN IF customer_data = EmptyDict
       THEN skip_item(cr, looked)
       ELSE LET analysis ==
                    analyze_churn_risk(customer_data, customer_prediction, kpi, o.r1, o.r2)
            IN IF ~analysis.ok
               THEN [ok |-> FALSE, exc |-> analysis.exc, cycle_results |-> cr,
                     events |-> looked]
               ELSE LET r == act_on_analysis("risk", i, analysis.val, customer_data, cr, o)
                    IN [r EXCEPT !.events = looked \o @]

process_anomaly(anomaly, i, kpi, cr, o) ==
    LET customer_id == Get(anomaly, "customer_id", None)
        customer_data == get_customer_context(customer_id, o.detail)
        looked == <<<<"lookup", "anomaly", i, customer_data # EmptyDict>>>>
    IN IF customer_data = EmptyDict
       THEN skip_item(cr, looked)
       ELSE LET analysis == analyze_anomaly(customer_data, anomaly, kpi, o.r1, o.r2)
            IN IF ~analysis.ok
               THEN [ok |-> FALSE, exc |-> analysis.exc, cycle_results |-> cr,
                     events |-> looked]
               ELSE LET r == act_on_analysis("anomaly", i, analysis.val, customer_data, cr, o)
                    IN [r EXCEPT !.events = looked \o @]

(* The backend responses drawn during a cycle: a failure, the records     *)
(* reported with confidence 0.85 and a few one-word texts.                 *)
CycleDiagnoserResponses ==
    {r \in DiagnoserResponses :
        \/ r.kind = "fail"
        \/ r.kind = "structured" /\ r.rec.confidence = 85 /\ r.rec.severity = "critical"
        \/ r.kind = "freeform" /\ r.text = <<"critical">>}

CycleSelectorResponses ==
    {r \in SelectorResponses :
        \/ r.kind \in {"fail", "blocks"}
        \/ /\ r.kind = "structured"
           /\ r.rec.confidence = 85
           /\ r.rec.priority = "high"
           /\ r.rec.action_type \in {"slack_alert", "none", "sms"}
        \/ r.kind = "freeform" /\ r.text \in {<<>>, <<"Slack">>}}

CycleOracles == ItemOracles(CycleDiagnoserResponses, CycleSelectorResponses)

ClientConfigs == {{}, Channels}

NoCall == [op |-> "none"]

Init ==
    /\ pc = "idle"
    /\ cycle_results = EmptyDict
    /\ churn_predictions = None
    /\ anomalies = None
    /\ kpi_context = None
    /\ idx = 0
    /\ calls = <<>>
    /\ clients \in ClientConfigs
    /\ last = NoCall

StartCycle_at_predict ==
    /\ pc = "idle"
    /\ pc' = "predict"
    /\ cycle_results' = NewCycleResults
    /\ calls' = <<>>
    /\ UNCHANGED <<churn_predictions, anomalies, kpi_context, idx, clients, last>>

StartCycle_accumulating ==
    /\ pc = "idle"
    /\ pc' = "extract"
    /\ cycle_results' = IF cycle_results = EmptyDict THEN NewCycleResults
                        ELSE cycle_results
    /\ calls' = <<>>
    /\ UNCHANGED <<churn_predictions, anomalies, kpi_context, idx, clients, last>>

(* run_churn_analysis_cycle, main.py 61-73 *)
StartCycle ==
    /\ pc = "idle"
    /\ pc' = "extract"
    /\ cycle_results' = NewCycleResults
    /\ calls' = <<>>
    /\ UNCHANGED <<churn_predictions, anomalies, kpi_context, idx, clients, last>>

(* Step 1, main.py 76-80; the handler of main.py 128-132 when it raises *)
Extract ==
    /\ pc = "extract"
    /\ \E out \in {Raise("extract")} \cup {Ok(n) : n \in 0..MaxRecords} :
          IF ~out.ok
          THEN /\ cycle_results' = CriticalError(cycle_results, "extract")
               /\ pc' = "done"
          ELSE /\ cycle_results' = [cycle_results EXCEPT !.customers_analyzed = out.val]
               /\ pc' = "predict"
    /\ calls' = Append(calls, <<"stage", "extract">>)
    /\ UNCHANGED <<churn_predictions, anomalies, kpi_context, idx, clients, last>>

(* Step 2, main.py 82-86 *)
Predict ==
    /\ pc = "predict"
    /\ \E out \in {Raise("predict")} \cup {Ok(f) : f \in PredictionFrames} :
          IF ~out.ok
          THEN /\ cycle_results' = CriticalError(cycle_results, "predict")
               /\ pc' = "done"
               /\ UNCHANGED churn_predictions
          ELSE /\ churn_predictions' = out.val
               /\ cycle_results' =
                     [cycle_results EXCEPT !.churn_predictions = PyLen(out.val)]
               /\ pc' = "detect"
    /\ calls' = Append(calls, <<"stage", "predict">>)
    /\ UNCHANGED <<anomalies, kpi_context, idx, clients, last>>

(* Step 3, main.py 88-92 with _detect_all_anomalies, main.py 134-156, for   *)
(* what detect_anomalies does on each of the monitored metrics.            *)
DetectStage(outcomes) ==
    /\ pc = "detect"
    /\ anomalies' = detect_all_anomalies(outcomes)
    /\ cycle_results' =
          [cycle_results EXCEPT !.anomalies_detected = PyLen(anomalies')]
    /\ pc' = "kpi"
    /\ calls' = Append(calls, <<"stage", "detect">>)
    /\ UNCHANGED <<churn_predictions, kpi_context, idx, clients>>

(* The detections drawn during a cycle: any metric may raise, and the rows *)
(* come from the last one.                                                 *)
CycleDetectOutcomes ==
    {outcomes \in DetectOutcomes :
        \A m \in 1..(Len(metrics_to_monitor) - 1) :
            outcomes[m].ok => PyLen(outcomes[m].val) = 0}

DetectAnomalies ==
    /\ pc = "detect"
    /\ \E outcomes \in CycleDetectOutcomes : DetectStage(outcomes)
    /\ UNCHANGED last

(* Step 4, main.py 94-97 *)
FetchKpi ==
    /\ pc = "kpi"
    /\ \E out \in {Raise("kpi"), Ok(KpiSnapshot)} :
          IF ~out.ok
          THEN /\ cycle_results' = CriticalError(cycle_results, "kpi")
               /\ pc' = "done"
               /\ UNCHANGED <<kpi_context, idx>>
          ELSE /\ kpi_context' = out.val
               /\ pc' = "risks"
               /\ idx' = 1
               /\ UNCHANGED cycle_results
    /\ calls' = Append(calls, <<"stage", "kpi">>)
    /\ UNCHANGED <<churn_predictions, anomalies, clients, last>>

ProcessRisk_prepending ==
    /\ pc = "risks"
    /\ idx <= PyLen(churn_predictions)
    /\ \E o \in CycleOracles :
          LET customer_prediction == churn_predictions.rows[idx]
              r == process_customer_risk(customer_prediction, idx, kpi_context,
                                         cycle_results, o)
          IN /\ calls' = r.events \o calls
             /\ cycle_results' =
                   IF r.ok THEN r.cycle_results
                   ELSE AppendError(r.cycle_results,
                            <<"Error processing customer",
                              Get(customer_prediction, "customer_id", None), r.exc>>)
    /\ idx' = idx + 1
    /\ UNCHANGED <<pc, churn_predictions, anomalies, kpi_context, clients, last>>

(* Step 5, main.py 99-107: one iteration of the loop *)
ProcessRisk ==
    /\ pc = "risks"
    /\ idx <= PyLen(churn_predictions)
    /\ \E o \in CycleOracles :
          LET customer_prediction == churn_predictions.rows[idx]
              r == process_customer_risk(customer_prediction, idx, kpi_context,
                                         cycle_results, o)
          IN /\ calls' = calls \o r.events
             /\ cycle_results' =
                   IF r.ok THEN r.cycle_results
                   ELSE AppendError(r.cycle_results,
                            <<"Error processing customer",
                              Get(customer_prediction, "customer_id", None), r.exc>>)
    /\ idx' = idx + 1
    /\ UNCHANGED <<pc, churn_predictions, anomalies, kpi_context, clients, last>>

(* Step 6 and the end of the cycle, main.py 109-132: anomalies.iterrows()  *)
(* raises AttributeError on a value without that method, and the handler   *)
(* of main.py 128-132 returns the accumulator as it stands.                *)
ProcessAnomalies ==
    /\ pc \in {"risks", "anomalies"}
    /\ pc = "risks" => idx > PyLen(churn_predictions)
    /\ LET i == IF pc = "risks" THEN 1 ELSE idx
       IN IF ~HasIterrows(anomalies)
          THEN /\ cycle_results' = CriticalError(cycle_results, "AttributeError")
               /\ pc' = "done"
               /\ calls' = Append(calls, <<"stage", "anomalies">>)
               /\ UNCHANGED idx
          ELSE IF i <= PyLen(anomalies)
          THEN /\ \E o \in CycleOracles :
                     LET anomaly == anomalies.rows[i]
                         r == process_anomaly(anomaly, i, kpi_context, cycle_results, o)
                     IN /\ calls' = (IF pc = "risks"
                                     THEN Append(calls, <<"stage", "anomalies">>)
                                     ELSE calls) \o r.events
                        /\ cycle_results' =
                              IF r.ok THEN r.cycle_results
                              ELSE AppendError(r.cycle_results,
                                       <<"Error processing anomaly for customer",
                                         Get(anomaly, "customer_id", None), r.exc>>)
               /\ idx' = i + 1
               /\ pc' = "anomalies"
          ELSE /\ cycle_results' = Finalize(cycle_results)
               /\ pc' = "done"
               /\ calls' = (IF pc = "risks"
                            THEN Append(calls, <<"stage", "anomalies">>)
                            ELSE calls) \o <<<<"stage", "finalize">>>>
               /\ UNCHANGED idx
    /\ UNCHANGED <<churn_predictions, anomalies, kpi_context, clients, last>>

Next ==
    \/ StartCycle
    \/ Extract
    \/ Predict
    \/ DetectAnomalies
    \/ FetchKpi
    \/ ProcessRisk
    \/ ProcessAnomalies

Spec == Init /\ [][Next]_vars

(* The cycle is one sequential method: the statement that is next always   *)
(* runs.                                                                   *)
FairSpec == Spec /\ WF_vars(Next)

(* ------------------- run_scheduled_analysis: cycle after cycle --------- *)

(* What the caller of the cycles keeps of them: how many have returned,    *)
(* and of the latest result the number of actions executed.                *)
Held(n, result) ==
    [op |-> "returned", cycles |-> n,
     actions_executed |-> Get(result, "actions_executed", 0)]

InitSchedule ==
    /\ pc = "idle"
    /\ cycle_results = EmptyDict
    /\ churn_predictions = None
    /\ anomalies = None
    /\ kpi_context = None
    /\ idx = 0
    /\ calls = <<>>
    /\ clients \in ClientConfigs
    /\ last = Held(0, EmptyDict)

(* A cycle returns its accumulator to the caller, and the scheduler gets   *)
(* to the next call of run_churn_analysis_cycle, whose locals are unbound. *)
RunPending ==
    /\ pc = "done"
    /\ last.cycles + 1 < MaxCycles
    /\ last' = Held(last.cycles + 1, cycle_results)
    /\ pc' = "idle"
    /\ churn_predictions' = None
    /\ anomalies' = None
    /\ kpi_context' = None
    /\ idx' = 0
    /\ UNCHANGED <<cycle_results, calls, clients>>

NextSchedule == Next \/ RunPending

SpecSchedule == InitSchedule /\ [][NextSchedule]_vars

(* --------------- the Diagnoser and the Selector on their own ----------- *)

SampleCustomer == CustomerRow(CustomerIds[1])

AnalysisContexts ==
    {prepare_analysis_context(SampleCustomer, PredictionRow(1, <<30, 70>>), KpiSnapshot).val,
     prepare_anomaly_context(SampleCustomer, AnomalyRow(1), KpiSnapshot).val}

NotCalled == [kind |-> "not_called"]

(* The response the backend gave, when the prompt could be formatted.      *)
Seen(analysis_context, keys, response) ==
    IF keys \subseteq DOMAIN analysis_context THEN response ELSE NotCalled

InitReasoning ==
    /\ pc = "reasoning"
    /\ cycle_results = EmptyDict
    /\ churn_predictions = None
    /\ anomalies = None
    /\ kpi_context = None
    /\ idx = 0
    /\ calls = <<>>
    /\ clients = {}
    /\ last = NoCall

Diagnose ==
    /\ pc = "reasoning"
    /\ \E ctx \in AnalysisContexts, r \in DiagnoserResponses :
          last' = [op |-> "diagnose",
                   variant |-> IF HasKey(ctx, "prediction_metrics")
                               THEN "prediction" ELSE "anomaly",
                   response |-> Seen(ctx, PromptKeys, r),
                   result |-> analyze_root_cause(ctx, r)]
    /\ pc' = "answered"
    /\ UNCHANGED <<cycle_results, churn_predictions, anomalies, kpi_context, idx,
                   calls, clients>>

Select ==
    /\ pc = "reasoning"
    /\ \E ctx \in AnalysisContexts, r \in SelectorResponses :
          last' = [op |-> "select",
                   variant |-> IF HasKey(ctx, "prediction_metrics")
                               THEN "prediction" ELSE "anomaly",
                   response |-> Seen(ctx, ActionPromptKeys, r),
                   result |-> determine_action(ctx, FailedRootCause, r)]
    /\ pc' = "answered"
    /\ UNCHANGED <<cycle_results, churn_predictions, anomalies, kpi_context, idx,
                   calls, clients>>

NextReasoning == Diagnose \/ Select

SpecReasoning == InitReasoning /\ [][NextReasoning]_vars

(* ------- _process_customer_risk and _process_anomaly called directly --- *)

UnitOracles == ItemOracles(CycleDiagnoserResponses, CycleSelectorResponses)

InitUnit ==
    /\ pc = "unit"
    /\ cycle_results = NewCycleResults
    /\ churn_predictions = None
    /\ anomalies = None
    /\ kpi_context = KpiSnapshot
    /\ idx = 0
    /\ calls = <<>>
    /\ clients \in ClientConfigs
    /\ last = NoCall

Returned(kind, i, r) ==
    r.events \o (IF r.ok THEN <<>> ELSE <<<<"raised", kind, i, r.exc>>>>)

(* What the reasoning engine returned to the call, NoCall when the item    *)
(* was skipped before the engine was reached.                              *)
Analysed(kind, row, o) ==
    LET customer_data == get_customer_context(Get(row, "customer_id", None), o.detail)
    IN IF customer_data = EmptyDict THEN NoCall
       ELSE IF kind = "risk"
       THEN analyze_churn_risk(customer_data, row, kpi_context, o.r1, o.r2)
       ELSE analyze_anomaly(customer_data, row, kpi_context, o.r1, o.r2)

Observed(kind, row, o) ==
    [op |-> "process", kind |-> kind, item |-> row, oracle |-> o,
     analysis |-> Analysed(kind, row, o)]

CallProcessCustomerRisk ==
    /\ pc = "unit"
    /\ idx < MaxUnitCalls
    /\ \E probs \in ProbVectors, o \in UnitOracles :
          LET r == process_customer_risk(PredictionRow(idx + 1, probs), idx + 1,
                                         kpi_context, cycle_results, o)
          IN /\ cycle_results' = r.cycle_results
             /\ calls' = calls \o Returned("risk", idx + 1, r)
             /\ last' = Observed("risk", PredictionRow(idx + 1, probs), o)
    /\ idx' = idx + 1
    /\ UNCHANGED <<pc, churn_predictions, anomalies, kpi_context, clients>>

CallProcessAnomaly ==
    /\ pc = "unit"
    /\ idx < MaxUnitCalls
    /\ \E o \in UnitOracles :
          LET anomaly == Update(AnomalyRow(idx + 1), [metric_name |-> metrics_to_monitor[1]])
              r == process_anomaly(anomaly, idx + 1, kpi_context, cycle_results, o)
          IN /\ cycle_results' = r.cycle_results
             /\ calls' = calls \o Returned("anomaly", idx + 1, r)
             /\ last' = Observed("anomaly", anomaly, o)
    /\ idx' = idx + 1
    /\ UNCHANGED <<pc, churn_predictions, anomalies, kpi_context, clients>>

NextUnit == CallProcessCustomerRisk \/ CallProcessAnomaly

SpecUnit == InitUnit /\ [][NextUnit]_vars

(* ------------------- execute_action called directly ------------------- *)

(* The decisions handed to execute_action: every Selector record, and a    *)
(* decision without any key.                                               *)
DispatchDecisions == ActionRecords \cup {EmptyDict}

InitDispatch ==
    /\ pc = "dispatching"
    /\ cycle_results = EmptyDict
    /\ churn_predictions = None
    /\ anomalies = None
    /\ kpi_context = None
    /\ idx = 0
    /\ calls = <<>>
    /\ clients \in ClientConfigs
    /\ last = NoCall

ExecuteAction ==
    /\ pc = "dispatching"
    /\ \E action_decision \in DispatchDecisions, channel_ok \in BOOLEAN :
          last' = [op |-> "execute_action",
                   action_decision |-> action_decision,
                   channel_ok |-> channel_ok,
                   result |-> execute_action(action_decision, SampleCustomer,
                                             clients, channel_ok)]
    /\ pc' = "dispatched"
    /\ UNCHANGED <<cycle_results, churn_predictions, anomalies, kpi_context, idx,
                   calls, clients>>

NextDispatch == ExecuteAction

SpecDispatch == InitDispatch /\ [][NextDispatch]_vars

(* ----------- the detection stage, with what each metric did ------------ *)

(* The cycle after steps 1 and 2, main.py 76-86.                           *)
InitDetect ==
    /\ pc = "detect"
    /\ churn_predictions \in PredictionFrames
    /\ \E n \in 0..MaxRecords :
          cycle_results = [NewCycleResults EXCEPT !.customers_analyzed = n,
                              !.churn_predictions = PyLen(churn_predictions)]
    /\ anomalies = None
    /\ kpi_context = None
    /\ idx = 0
    /\ calls = <<<<"stage", "extract">>, <<"stage", "predict">>>>
    /\ clients \in ClientConfigs
    /\ last = NoCall

DetectAnomaliesObserved ==
    /\ pc = "detect"
    /\ \E outcomes \in DetectOutcomes :
          /\ DetectStage(outcomes)
          /\ last' = [op |-> "detect_all_anomalies", outcomes |-> outcomes]

NextDetect == DetectAnomaliesObserved \/ FetchKpi

SpecDetect == InitDetect /\ [][NextDetect]_vars

(* ------------------ the Context Assembler on its own ------------------- *)

Restrict(d, keys) == [k \in DOMAIN d \cap keys |-> d[k]]

Without(d, candidates) ==
    {Restrict(d, DOMAIN d \ drop) : drop \in SUBSET candidates}

(* Customer rows, with and without some of the columns the context reads.  *)
CustomerInputs == Without(SampleCustomer, {"monthly_revenue", "support_tickets_30d"})

PredictionInputs ==
    UNION {Without(PredictionRow(1, probs),
                   {"predicted_churned_flag", "predicted_churned_flag_probs"}) :
              probs \in ProbVectors}

(* The dictionaries _detect_all_anomalies builds: a row of detect_anomalies *)
(* with the name of its metric.                                            *)
AnomalyInputs ==
    UNION {Without(TagMetric(AnomalyFrame(1), metrics_to_monitor[m])[1],
                   {"z_score", "anomaly_flag"}) :
              m \in 1..Len(metrics_to_monitor)}

(* get_churn_kpis when every Look answered.                                *)
FullKpiSnapshot ==
    [kpis |-> [monthly_churn_rate |-> [look_id |-> "l1", data |-> 5],
               revenue_churn |-> [look_id |-> "l2", data |-> 7]],
     fetched_at |-> "now"]

KpiInputs == {None, EmptyDict, KpiSnapshot, FullKpiSnapshot}

InitContext ==
    /\ pc = "assembling"
    /\ cycle_results = EmptyDict
    /\ churn_predictions = None
    /\ anomalies = None
    /\ kpi_context = None
    /\ idx = 0
    /\ calls = <<>>
    /\ clients = {}
    /\ last = NoCall

PrepareAnalysisContext ==
    /\ pc = "assembling"
    /\ \E customer_data \in CustomerInputs, prediction_data \in PredictionInputs,
          kpi \in KpiInputs :
          last' = [op |-> "prepare_analysis_context",
                   customer_data |-> customer_data,
                   signal |-> prediction_data,
                   kpi |-> kpi,
                   result |-> prepare_analysis_context(customer_data, prediction_data, kpi)]
    /\ pc' = "assembled"
    /\ UNCHANGED <<cycle_results, churn_predictions, anomalies, kpi_context, idx,
                   calls, clients>>

PrepareAnomalyContext ==
    /\ pc = "assembling"
    /\ \E customer_data \in CustomerInputs, anomaly_data \in AnomalyInputs,
          kpi \in KpiInputs :
          last' = [op |-> "prepare_anomaly_context",
                   customer_data |-> customer_data,
                   signal |-> anomaly_data,
                   kpi |-> kpi,
                   result |-> prepare_anomaly_context(customer_data, anomaly_data, kpi)]
    /\ pc' = "assembled"
    /\ UNCHANGED <<cycle_results, churn_predictions, anomalies, kpi_context, idx,
                   calls, clients>>

NextContext == PrepareAnalysisContext \/ PrepareAnomalyContext

SpecContext == InitContext /\ [][NextContext]_vars

(* ============================ properties ============================== *)

CounterKeys ==
    {"customers_analyzed", "churn_predictions", "anomalies_detected",
     "actions_executed", "successful_actions", "failed_actions"}

PrepStages == {"extract", "predict", "detect", "kpi"}

(* The four preparatory stages of the cycle have all returned. *)
PreparedOk == kpi_context # None

ItemEvents(tag, kind, i) ==
    {n \in 1..Len(calls) : calls[n][1] = tag /\ calls[n][2] = kind /\ calls[n][3] = i}

AnyItemEvent ==
    \E n \in 1..Len(calls) :
        calls[n][1] \in {"lookup", "diagnose", "select", "dispatch", "log"}

(* C1: a cycle whose extraction, prediction and anomaly detection all yield
   nothing returns every counter at 0 and an empty errors list. *)
C1_EmptyCycleIsClean ==
    (/\ pc = "done"
     /\ PreparedOk
     /\ cycle_results.customers_analyzed = 0
     /\ PyLen(churn_predictions) = 0
     /\ PyLen(anomalies) = 0)
    => /\ \A k \in CounterKeys : cycle_results[k] = 0
       /\ cycle_results.errors = <<>>

ExtractRaised == pc = "done" /\ calls = <<<<"stage", "extract">>>>

(* C2 as stated: when extract_churn_data raises, the returned result has
   exactly one error entry and cycle_end is populated. *)
C2_ExtractFailureHasCycleEnd ==
    ExtractRaised => /\ Len(cycle_results.errors) = 1
                     /\ HasKey(cycle_results, "cycle_end")

(* C2 as amended: when extract_churn_data raises, the cycle returns a result
   with exactly one error entry; the result carries cycle_start but neither
   cycle_end nor cycle_duration_seconds. *)
C2_ExtractFailureResult ==
    ExtractRaised => /\ Len(cycle_results.errors) = 1
                     /\ HasKey(cycle_results, "cycle_start")
                     /\ ~HasKey(cycle_results, "cycle_end")
                     /\ ~HasKey(cycle_results, "cycle_duration_seconds")

C2_Witness == ExtractRaised /\ Len(cycle_results.errors) = 1

(* C3: every diagnosis and every decision carries a confidence in [0,1],
   whatever the backend answered. *)
C3_ConfidenceInUnitInterval ==
    last.op \in {"diagnose", "select"} => last.result.confidence \in 0..100

SelectorFallback == last.op = "select" /\ last.response.kind = "freeform"

(* C4 as stated: in the Selector's keyword fallback a text containing "jira"
   always yields jira_ticket. *)
C4_JiraAlwaysTicket ==
    (SelectorFallback /\ Contains(LowerText(last.response.text), "jira"))
    => last.result.action_type = "jira_ticket"

(* C4 as amended: in the Selector's keyword fallback a text that contains
   "jira" and does not contain "slack" yields jira_ticket, whatever other
   keywords ("email", "ticket") it contains. *)
C4_JiraWithoutSlackIsTicket ==
    (/\ SelectorFallback
     /\ Contains(LowerText(last.response.text), "jira")
     /\ ~Contains(LowerText(last.response.text), "slack"))
    => last.result.action_type = "jira_ticket"

C4_Witness ==
    /\ SelectorFallback
    /\ Contains(LowerText(last.response.text), "jira")
    /\ Contains(LowerText(last.response.text), "email")
    /\ last.result.action_type = "jira_ticket"

(* An item whose lookup found a row went through the Diagnoser, then the
   Selector, then the dispatch when the decision is not none. *)
ItemHandled(kind, i) ==
    \E n \in ItemEvents("lookup", kind, i) :
        calls[n][4] =>
            \E d \in ItemEvents("diagnose", kind, i), s \in ItemEvents("select", kind, i) :
                /\ n < d
                /\ d < s
                /\ calls[s][4] # "none" =>
                       \E x \in ItemEvents("dispatch", kind, i) : s < x

(* C5: in a cycle whose preparatory stages succeed, every at-risk customer
   and every detected anomaly is looked up and, when its detail exists,
   diagnosed, decided and (unless the decision is none) dispatched. *)
C5_EveryItemProcessed ==
    (pc = "done" /\ PreparedOk)
    => /\ \A i \in 1..PyLen(churn_predictions) : ItemHandled("risk", i)
       /\ \A i \in 1..PyLen(anomalies) : ItemHandled("anomaly", i)

ItemErrors(i) ==
    {n \in 1..Len(cycle_results.errors) :
        /\ cycle_results.errors[n][1] = "Error processing customer"
        /\ cycle_results.errors[n][2] = CustomerIds[i]}

(* C6: when processing an at-risk customer raises, one error string is
   recorded for it and every later at-risk customer and every anomaly is
   still processed. *)
C6_ItemFailureIsolated ==
    (pc = "done" /\ PreparedOk)
    => \A i \in 1..PyLen(churn_predictions) :
          ItemErrors(i) # {}
          => /\ Cardinality(ItemErrors(i)) = 1
             /\ \A j \in (i + 1)..PyLen(churn_predictions) :
                   ItemEvents("lookup", "risk", j) # {}
             /\ \A a \in 1..PyLen(anomalies) : ItemEvents("lookup", "anomaly", a) # {}

(* C7: a preparatory stage that raises ends the cycle: one error entry, the
   counters as the earlier stages left them, no item touched, and no step
   after the return. *)
C7_StageFailureStopsCycle ==
    [][/\ pc # "done"
       /\ (pc \in PrepStages /\ pc' = "done")
          => /\ Len(cycle_results'.errors) = 1
             /\ \A k \in CounterKeys : cycle_results'[k] = cycle_results[k]
             /\ ~AnyItemEvent']_vars

C7_Witness ==
    /\ pc = "done"
    /\ ~PreparedOk
    /\ Len(calls) = 4
    /\ cycle_results.customers_analyzed = 1
    /\ cycle_results.churn_predictions = 2
    /\ cycle_results.anomalies_detected = 1
    /\ Len(cycle_results.errors) = 1

(* A step that processed an item whose customer-detail lookup was empty. *)
SkippedStep ==
    /\ Len(calls') > Len(calls)
    /\ calls'[Len(calls) + 1][1] = "lookup"
    /\ ~calls'[Len(calls) + 1][4]

(* C8: an item whose customer-detail lookup returns empty is skipped: no
   Diagnoser, Selector or dispatch call, no counter changed, no error. *)
C8_MissingDetailSkipsItem ==
    [][SkippedStep => /\ Len(calls') = Len(calls) + 1
                      /\ cycle_results' = cycle_results]_vars

C8_Witness ==
    /\ pc = "unit"
    /\ calls = <<<<"lookup", "risk", 1, FALSE>>, <<"lookup", "anomaly", 2, FALSE>>>>
    /\ cycle_results = NewCycleResults

Dispatches(status) ==
    {n \in 1..Len(calls) : calls[n][1] = "dispatch" /\ calls[n][4] = status}

(* C9: successful_actions is the number of dispatches that returned success
   and failed_actions the number that returned failed. *)
C9_OutcomeCounts ==
    pc # "idle"
    => /\ cycle_results.successful_actions = Cardinality(Dispatches("success"))
       /\ cycle_results.failed_actions = Cardinality(Dispatches("failed"))

C9_Witness ==
    /\ pc = "done"
    /\ Cardinality(Dispatches("success")) = 1
    /\ Cardinality(Dispatches("failed")) = 1
    /\ cycle_results.successful_actions = 1
    /\ cycle_results.failed_actions = 1

(* C10: when the backend call fails the Diagnoser returns "Analysis failed",
   no factors, no actions, severity unknown and confidence 0.0, and the
   Selector returns none, priority low and confidence 0.0. *)
C10_BackendFailureDefaults ==
    (last.op \in {"diagnose", "select"} /\ last.response.kind = "fail")
    => IF last.op = "diagnose"
       THEN /\ last.result.primary_cause = "Analysis failed"
            /\ last.result.contributing_factors = <<>>
            /\ last.result.recommended_actions = <<>>
            /\ last.result.severity = "unknown"
            /\ last.result.confidence = 0
       ELSE /\ last.result.action_type = "none"
            /\ last.result.priority = "low"
            /\ last.result.confidence = 0

C10_Witness ==
    /\ last.op = "diagnose"
    /\ last.response.kind = "fail"
    /\ last.result.primary_cause = "Analysis failed"

DiagnoserFallback == last.op = "diagnose" /\ last.response.kind = "freeform"

(* C11: in the Diagnoser's keyword fallback the severity is the first
   matching tier, case-insensitively: critical/severe/urgent give critical,
   else high/significant give high, else medium/moderate give medium, else
   low; a text containing "critical" yields critical whatever else it holds. *)
C11_SeverityFirstTier ==
    DiagnoserFallback
    => LET text == LowerText(last.response.text)
           has(ws) == \E w \in ws : Contains(text, w)
           severity == last.result.severity
       IN /\ has({"critical", "severe", "urgent"}) => severity = "critical"
          /\ (~has({"critical", "severe", "urgent"}) /\ has({"high", "significant"}))
                => severity = "high"
          /\ (/\ ~has({"critical", "severe", "urgent", "high", "significant"})
              /\ has({"medium", "moderate"}))
                => severity = "medium"
          /\ ~has({"critical", "severe", "urgent", "high", "significant",
                   "medium", "moderate"})
                => severity = "low"

C11_Witness ==
    /\ DiagnoserFallback
    /\ last.response.text = <<"high", "CRITICAL">>
    /\ last.result.severity = "critical"

ResultKeys == CounterKeys \cup {"cycle_start", "errors"}

(* C12: every invocation of run_churn_analysis_cycle terminates and returns
   a result record (the counters, cycle_start and errors), whatever the
   collaborators do, every collaborator failing on every call included. *)
C12_CycleReturns ==
    <>(pc = "done" /\ ResultKeys \subseteq DOMAIN cycle_results)

(* The cycle returned after the four stages although a customer-detail
   lookup found nothing and a dispatch failed. *)
C12_Witness ==
    /\ pc = "done"
    /\ ResultKeys \subseteq DOMAIN cycle_results
    /\ PreparedOk
    /\ PyLen(churn_predictions) = MaxPredictions
    /\ \E n \in ItemEvents("lookup", "risk", 1) : ~calls[n][4]
    /\ Cardinality(Dispatches("failed")) > 0

StageOrder == <<"extract", "predict", "detect", "kpi", "anomalies", "finalize">>

StagePos(name) ==
    {n \in 1..Len(calls) : calls[n][1] = "stage" /\ calls[n][2] = name}

ItemPos(kind) ==
    {n \in 1..Len(calls) : calls[n][1] # "stage" /\ calls[n][2] = kind}

(* C13: within one cycle the stages occur in the order EXTRACT, PREDICT,
   DETECT_ANOMALIES, FETCH_KPI, PROCESS_RISKS, PROCESS_ANOMALIES, FINALIZE:
   each at most once and only after the previous one, the at-risk customers
   between FETCH_KPI and PROCESS_ANOMALIES, the anomalies between the start
   of PROCESS_ANOMALIES and FINALIZE. *)
C13_StagesInOrder ==
    /\ \A n \in 1..Len(calls) :
          calls[n][1] = "stage" => \E k \in 1..Len(StageOrder) : calls[n][2] = StageOrder[k]
    /\ \A k \in 1..Len(StageOrder) : Cardinality(StagePos(StageOrder[k])) <= 1
    /\ \A k \in 2..Len(StageOrder) :
          \A n \in StagePos(StageOrder[k]) :
              \E m \in StagePos(StageOrder[k - 1]) : m < n
    /\ \A n \in ItemPos("risk") :
          /\ \E m \in StagePos("kpi") : m < n
          /\ \A a \in StagePos("anomalies") : n < a
    /\ \A n \in ItemPos("anomaly") :
          /\ \E a \in StagePos("anomalies") : a < n
          /\ \A f \in StagePos("finalize") : n < f

C13_Witness ==
    /\ pc = "done"
    /\ StagePos("anomalies") # {}
    /\ Cardinality(ItemPos("risk")) > MaxPredictions
    /\ \E n \in ItemPos("risk") : calls[n][1] = "dispatch"

(* C14: when none of the four preparatory stages raises, the cycle reaches
   FINALIZE: the returned result carries cycle_end and
   cycle_duration_seconds, however many items failed. *)
C14_PreparedCycleFinalizes ==
    (pc = "done" /\ PreparedOk)
    => /\ HasKey(cycle_results, "cycle_end")
       /\ HasKey(cycle_results, "cycle_duration_seconds")

DiagnosisKeys ==
    {"primary_cause", "contributing_factors", "severity", "recommended_actions",
     "confidence"}

(* C15: the Diagnoser returns a diagnosis record and never raises, for the
   prediction and the anomaly variant of the context and for every backend
   outcome: a call failure, a content that parses, a text that does not, a
   content that is not text. *)
C15_DiagnoserAlwaysReturns ==
    last.op = "diagnose" => DOMAIN last.result = DiagnosisKeys

C15_Witness ==
    /\ last.op = "diagnose"
    /\ last.variant = "anomaly"
    /\ last.response = NotCalled
    /\ DOMAIN last.result = DiagnosisKeys

Assembled == last.op \in {"prepare_analysis_context", "prepare_anomaly_context"}

(* C16: the Context Assembler never fails, for the prediction and for the
   anomaly variant: a customer field absent from the input is in the
   context as an explicit marker, and an absent KPI snapshot gives an empty
   kpi_metrics mapping. *)
C16_AssemblerNeverFails ==
    Assembled
    => /\ last.result.ok
       /\ CustomerMetricKeys \subseteq DOMAIN last.result.val.customer_metrics
       /\ ~Truthy(last.kpi) => last.result.val.kpi_metrics = EmptyDict

(* The group of the context that holds the signal, and the name a column
   of the signal record has there. *)
SignalGroup(ctx) ==
    IF HasKey(ctx, "prediction_metrics") THEN ctx.prediction_metrics
    ELSE ctx.anomaly_metrics

SignalName(k) ==
    CASE k = "predicted_churned_flag" -> "predicted_churn"
      [] k = "predicted_churned_flag_probs" -> "churn_probability"
      [] OTHER -> k

AllFieldsPresent ==
    /\ Assembled
    /\ last.customer_data = SampleCustomer
    /\ last.kpi = FullKpiSnapshot
    /\ IF last.op = "prepare_analysis_context"
       THEN last.signal = PredictionRow(1, <<30, 70>>)
       ELSE {"z_score", "anomaly_flag", "metric_name"} \subseteq DOMAIN last.signal

(* C17: a context built from customer, signal and KPI records with all
   fields present loses no field: every field of the customer record is in
   customer_metrics, every field of the signal record in the signal group
   (the customer id apart, which customer_metrics holds), every KPI entry in
   kpi_metrics, and the timestamp is set. *)
C17_ContextLosesNoField ==
    AllFieldsPresent
    => /\ last.result.ok
       /\ LET ctx == last.result.val
          IN /\ \A k \in DOMAIN last.customer_data :
                   /\ HasKey(ctx.customer_metrics, k)
                   /\ ctx.customer_metrics[k] = last.customer_data[k]
             /\ \A k \in DOMAIN last.signal \ {"customer_id"} :
                   HasKey(SignalGroup(ctx), SignalName(k))
             /\ DOMAIN last.kpi.kpis \subseteq DOMAIN ctx.kpi_metrics
             /\ HasKey(ctx, "analysis_timestamp")

FailedMetrics(outcomes) == {m \in 1..Len(metrics_to_monitor) : ~outcomes[m].ok}

(* C18: when detect_anomalies fails for some of the monitored metrics the
   detection stage does not fail: every row of every other metric is in the
   collected anomalies with the name of its metric, nothing else is
   collected, nothing is appended to errors, and the cycle goes on to the
   KPI stage. *)
C18_DetectionSurvivesMetricFailure ==
    [][pc = "detect"
       => LET outcomes == last'.outcomes
          IN /\ pc' = "kpi"
             /\ cycle_results'.errors = cycle_results.errors
             /\ \A m \in 1..Len(metrics_to_monitor) \ FailedMetrics(outcomes) :
                   \A j \in 1..PyLen(outcomes[m].val) :
                       \E n \in 1..PyLen(anomalies') :
                           anomalies'.rows[n] =
                               Update(outcomes[m].val.rows[j],
                                      [metric_name |-> metrics_to_monitor[m]])
             /\ PyLen(anomalies') = TotalRows(outcomes, Len(metrics_to_monitor))
             /\ cycle_results'.anomalies_detected = PyLen(anomalies')]_vars

(* The KPI stage ran after a detection in which the first metric failed
   and another metric's anomalies were collected. *)
C18_Witness ==
    /\ pc = "risks"
    /\ last.op = "detect_all_anomalies"
    /\ 1 \in FailedMetrics(last.outcomes)
    /\ PyLen(anomalies) = MaxAnomalies
    /\ cycle_results.errors = <<>>

EventPos(tag) == {n \in 1..Len(calls) : calls[n][1] = tag}

SameItem(n, m) == calls[n][2] = calls[m][2] /\ calls[n][3] = calls[m][3]

(* C19: the dispatch collaborator is invoked for an item exactly when the
   Selector's decision for it has an action type other than none, and
   actions_executed counts the dispatch invocations. *)
C19_DispatchIffActionDecided ==
    pc # "idle"
    => /\ \A s \in EventPos("select") :
             calls[s][4] # "none"
             <=> /\ s < Len(calls)
                 /\ calls[s + 1][1] = "dispatch"
                 /\ SameItem(s, s + 1)
       /\ \A d \in EventPos("dispatch") :
             /\ d > 1
             /\ calls[d - 1][1] = "select"
             /\ SameItem(d - 1, d)
       /\ cycle_results.actions_executed = Cardinality(EventPos("dispatch"))

(* A returned cycle in which one decision was none and another, of an
   action type no channel knows, was dispatched. *)
C19_Witness ==
    /\ pc = "done"
    /\ \E s \in EventPos("select") : calls[s][4] = "none"
    /\ \E s \in EventPos("select") : calls[s][4] = "sms"
    /\ Cardinality(EventPos("dispatch")) = 1
    /\ cycle_results.actions_executed = 1

(* C20: in the Selector's keyword fallback the action type is the first
   match of "slack" (slack_alert), "jira" or "ticket" (jira_ticket), "email"
   (email), otherwise none; the priority is the first match of
   high/urgent/critical (high), medium/moderate (medium), otherwise low;
   each is chosen from the whole text, independently of the other. *)
C20_SelectorFallbackTiers ==
    SelectorFallback
    => LET text == LowerText(last.response.text)
           has(ws) == \E w \in ws : Contains(text, w)
           decision == last.result
       IN /\ decision.action_type =
                (CASE has({"slack"}) -> "slack_alert"
                   [] ~has({"slack"}) /\ has({"jira", "ticket"}) -> "jira_ticket"
                   [] ~has({"slack", "jira", "ticket"}) /\ has({"email"}) -> "email"
                   [] OTHER -> "none")
          /\ decision.priority =
                (CASE has({"high", "urgent", "critical"}) -> "high"
                   [] ~has({"high", "urgent", "critical"}) /\ has({"medium", "moderate"})
                        -> "medium"
                   [] OTHER -> "low")

(* One text, two choices: the channel from "ticket", the priority from
   "urgent". *)
C20_Witness ==
    /\ SelectorFallback
    /\ last.response.text = <<"ticket", "urgent">>
    /\ last.result.action_type = "jira_ticket"
    /\ last.result.priority = "high"

(* C21: when the backend text parses strictly, the Diagnoser and the      *)
(* Selector return the parsed record unchanged: every field, including a  *)
(* confidence outside 0..1, an unknown severity or priority and an        *)
(* unknown action type, is passed through as the backend reported it.     *)
C21_StrictParsePassesThrough ==
    (last.op \in {"diagnose", "select"} /\ last.response.kind = "structured")
    => last.result = last.response.rec

(* A Selector record with confidence 1.5 and the unknown action type sms  *)
(* came back as reported.                                                 *)
C21_Witness ==
    /\ last.op = "select"
    /\ last.response.kind = "structured"
    /\ last.response.rec.confidence = 150
    /\ last.response.rec.action_type = "sms"
    /\ last.result = last.response.rec

(* C22: for every backend text that fails strict parse, the Diagnoser and *)
(* the Selector return confidence 0.5 and the fixed text "Analysis        *)
(* completed (fallback parsing)" as primary_cause / reason; the           *)
(* Diagnoser's contributing_factors and recommended_actions hold one      *)
(* generic entry each; only severity, action_type and priority vary with  *)
(* the text.                                                              *)
C22_FallbackFixedFields ==
    /\ DiagnoserFallback
        => [last.result EXCEPT !.severity = "-"] =
               [primary_cause |-> "Analysis completed (fallback parsing)",
                contributing_factors |-> <<"Unable to parse specific factors">>,
                severity |-> "-",
                recommended_actions |-> <<"Review customer manually">>,
                confidence |-> 50]
    /\ SelectorFallback
        => [last.result EXCEPT !.action_type = "-", !.priority = "-"] =
               [action_type |-> "-",
                priority |-> "-",
                reason |-> "Analysis completed (fallback parsing)",
                action_details |-> EmptyDict,
                confidence |-> 50]

(* A text naming a critical situation gets severity critical and still    *)
(* confidence 0.5.                                                        *)
C22_Witness ==
    /\ DiagnoserFallback
    /\ last.response.text = <<"severe">>
    /\ last.result.severity = "critical"
    /\ last.result.confidence = 50
    /\ Len(last.result.contributing_factors) = 1
    /\ Len(last.result.recommended_actions) = 1

(* The events the step added to the log of calls.                         *)
NewEvents == SubSeq(calls', Len(calls) + 1, Len(calls'))

(* The call observed last reached the reasoning engine, and the backend   *)
(* failed on both of its calls.                                           *)
BackendDown ==
    /\ last.op = "process"
    /\ last.oracle.detail = "row"
    /\ last.oracle.r1 = Failure
    /\ last.oracle.r2 = Failure
    /\ last.analysis.ok

(* C23: when the reasoning backend is unavailable for an item, nothing    *)
(* propagates to the Orchestrator: the Selector is still invoked, with    *)
(* the "Analysis failed" diagnosis, the decision is none, there is no     *)
(* dispatch and no outcome log, no counter changes, errors gets no entry  *)
(* and the call returns normally, so the loop goes on to the next item.   *)
C23_BackendDownItemIsQuiet ==
    [][BackendDown'
       => /\ last'.analysis.val.root_cause_analysis.primary_cause = "Analysis failed"
          /\ last'.analysis.val.action_decision.action_type = "none"
          /\ NewEvents = <<<<"lookup", last'.kind, idx', TRUE>>,
                           <<"diagnose", last'.kind, idx'>>,
                           <<"select", last'.kind, idx', "none">>>>
          /\ cycle_results' = cycle_results]_vars

(* The first item led to a dispatch, the backend was down for the second  *)
(* one, which left the three events of a quiet item and the counters of   *)
(* the first.                                                             *)
C23_Witness ==
    /\ BackendDown
    /\ last.kind = "risk"
    /\ idx = 2
    /\ \E n \in 1..Len(calls) : calls[n][1] = "dispatch" /\ calls[n][3] = 1
    /\ calls[Len(calls)] = <<"select", "risk", 2, "none">>
    /\ cycle_results.actions_executed = 1
    /\ cycle_results.errors = <<>>

ItemTags == {"lookup", "diagnose", "select", "dispatch", "log"}

(* The place of an item in the cycle: the at-risk customers in the order  *)
(* of the prediction frame, then the anomalies in the order of the list.  *)
ItemRank(event) ==
    IF event[2] = "risk" THEN event[3] ELSE MaxPredictions + event[3]

(* C24: items are processed strictly one after another: every lookup,     *)
(* Diagnoser call, Selector call, dispatch and outcome log of an earlier  *)
(* item happens before any of those events of a later item, and every     *)
(* at-risk customer comes before any anomaly.                             *)
C24_ItemsOneAfterAnother ==
    \A n, m \in 1..Len(calls) :
        (n < m /\ calls[n][1] \in ItemTags /\ calls[m][1] \in ItemTags)
        => ItemRank(calls[n]) <= ItemRank(calls[m])

(* Two at-risk customers each went from lookup to outcome log, the first  *)
(* one's log right before the second one's lookup.                        *)
C24_Witness ==
    /\ pc = "done"
    /\ \E n \in 1..Len(calls) - 1 :
          /\ calls[n] = <<"log", "risk", 1>>
          /\ calls[n + 1] = <<"lookup", "risk", 2, TRUE>>
    /\ calls[Len(calls) - 1] = <<"log", "risk", 2>>

(* C25 as stated: for every action decision, whatever its action type (a  *)
(* known channel, none, an unknown string, or a channel whose client is   *)
(* not initialised), execute_action returns a result record without       *)
(* raising, and the record's status is either success or failed.          *)
C25_StatusSuccessOrFailed ==
    last.op = "execute_action"
    => /\ HasKey(last.result, "status")
       /\ last.result.status \in {"success", "failed"}

(* C25 as the code has it: execute_action returns a result record for     *)
(* every decision; the status is skipped exactly when the action type is  *)
(* none or the decision names no action type, and success or failed       *)
(* otherwise; it is success only for a known channel whose client is      *)
(* initialised.                                                           *)
C25_StatusByActionType ==
    last.op = "execute_action"
    => LET action_type == Get(last.action_decision, "action_type", "none")
       IN /\ HasKey(last.result, "status")
          /\ IF action_type = "none"
             THEN last.result.status = "skipped"
             ELSE last.result.status \in {"success", "failed"}
          /\ last.result.status = "success"
             => action_type \in Channels \cap clients

(* A decision of none came back with status skipped.                      *)
C25_Witness ==
    /\ last.op = "execute_action"
    /\ HasKey(last.action_decision, "action_type")
    /\ last.action_decision.action_type = "none"
    /\ last.result.status = "skipped"

(* The items of the running cycle whose processing raised: the customer   *)
(* detail was found and no Diagnoser call followed.                       *)
ItemErrorsInCycle ==
    {n \in EventPos("lookup") :
        calls[n][4] /\ (n = Len(calls) \/ calls[n + 1][1] # "diagnose")}

(* 1 when the cycle has ended, and ended in the handler of the whole      *)
(* cycle.                                                                 *)
CriticalInCycle ==
    IF pc \in {"done", "idle"} /\ calls # <<>>
       /\ calls[Len(calls)] # <<"stage", "finalize">>
    THEN 1 ELSE 0

(* The accumulator holds what the calls of its own cycle put there, and   *)
(* nothing else.                                                          *)
CountsOfThisCycle ==
    cycle_results # EmptyDict
    => /\ cycle_results.actions_executed = Cardinality(EventPos("dispatch"))
       /\ cycle_results.successful_actions = Cardinality(Dispatches("success"))
       /\ cycle_results.failed_actions =
              Cardinality(EventPos("dispatch") \ Dispatches("success"))
       /\ Len(cycle_results.errors) = Cardinality(ItemErrorsInCycle) + CriticalInCycle
       /\ cycle_results.customers_analyzed <= MaxRecords
       /\ cycle_results.churn_predictions <= MaxPredictions
       /\ cycle_results.anomalies_detected <= MaxAnomalies

(* C26: each call of run_churn_analysis_cycle starts from a fresh         *)
(* accumulator with all counters 0 and empty errors; the result of a      *)
(* cycle holds no count and no error entry of an earlier cycle, and what  *)
(* the caller holds of a returned result is not changed by a later cycle. *)
C26_FreshAccumulatorPerCycle ==
    /\ []CountsOfThisCycle
    /\ [][/\ (pc = "idle" /\ pc' # "idle") => cycle_results' = NewCycleResults
          /\ last'.cycles = last.cycles => last' = last]_vars

(* The first cycle returned with two actions executed; the second went    *)
(* through two at-risk customers, executed one action and ended with that *)
(* one action and its own single error.                                   *)
C26_Witness ==
    /\ last.op = "returned"
    /\ last.cycles = 1
    /\ last.actions_executed = 2
    /\ pc = "done"
    /\ cycle_results.churn_predictions = 2
    /\ cycle_results.actions_executed = 1
    /\ Len(cycle_results.errors) = 1

(* C27: for an anomaly item the backend is consulted as for a prediction  *)
(* item: when it returns a parseable diagnosis and decision,              *)
(* analyze_anomaly returns that diagnosis and that decision, not the      *)
(* total-failure defaults.                                                *)
C27_AnomalyGetsParsedAnalysis ==
    (/\ last.op = "process"
     /\ last.kind = "anomaly"
     /\ last.oracle.detail = "row"
     /\ last.oracle.r1.kind = "structured"
     /\ last.oracle.r2.kind = "structured")
    => /\ last.analysis.ok
       /\ last.analysis.val.root_cause_analysis = last.oracle.r1.rec
       /\ last.analysis.val.action_decision = last.oracle.r2.rec

(* C28: at every item boundary of a cycle and in the returned result,     *)
(* actions_executed = successful_actions + failed_actions, and            *)
(* actions_executed never exceeds the number of items processed so far.   *)
C28_ActionCountsBalance ==
    cycle_results # EmptyDict
    => /\ cycle_results.actions_executed =
              cycle_results.successful_actions + cycle_results.failed_actions
       /\ cycle_results.actions_executed <= Cardinality(EventPos("lookup"))

(* A finished cycle with two items processed and one action executed,     *)
(* which failed.                                                          *)
C28_Witness ==
    /\ pc = "done"
    /\ Cardinality(EventPos("lookup")) = 2
    /\ cycle_results.actions_executed = 1
    /\ cycle_results.successful_actions = 0
    /\ cycle_results.failed_actions = 1

(* The counters the dispatch of the step set, read from its event.        *)
CountedDispatch(status) ==
    /\ cycle_results'.actions_executed = cycle_results.actions_executed + 1
    /\ cycle_results'.successful_actions =
           cycle_results.successful_actions + (IF status = "success" THEN 1 ELSE 0)
    /\ cycle_results'.failed_actions =
           cycle_results.failed_actions + (IF status = "success" THEN 0 ELSE 1)

(* C29: the outcome log is called exactly once after each dispatch and    *)
(* never for an item that was skipped or whose decision was none; when    *)
(* the call fails the failure is swallowed: the action counters keep the  *)
(* values the dispatch set, errors gets no entry and the call returns     *)
(* normally, so the loop goes on to the next item.                        *)
C29_LogOncePerDispatchAndSwallowed ==
    [][LET new == NewEvents
           logs == {n \in 1..Len(new) : new[n][1] = "log"}
           dispatches == {n \in 1..Len(new) : new[n][1] = "dispatch"}
       IN /\ logs = {n + 1 : n \in dispatches}
          /\ Cardinality(dispatches) <= 1
          /\ (\E n \in 1..Len(new) :
                 \/ new[n][1] = "lookup" /\ ~new[n][4]
                 \/ new[n][1] = "select" /\ new[n][4] = "none")
             => logs = {}
          /\ (logs # {} /\ ~last'.oracle.log_ok)
             => /\ new[Len(new)][1] = "log"
                /\ \A n \in dispatches : CountedDispatch(new[n][4])
                /\ cycle_results'.errors = cycle_results.errors]_vars

(* The outcome log failed after a dispatch: the action is counted, errors *)
(* is empty and the log event is the last one of the call.                *)
C29_Witness ==
    /\ last.op = "process"
    /\ ~last.oracle.log_ok
    /\ idx = 1
    /\ calls[Len(calls)] = <<"log", last.kind, 1>>
    /\ cycle_results.actions_executed = 1
    /\ cycle_results.errors = <<>>

(* C30: when the warehouse fails while looking up an item's customer      *)
(* detail, the item is handled exactly like one whose detail is absent:   *)
(* it is skipped with no Diagnoser, Selector or dispatch call, no counter *)
(* changes and errors gets no entry.                                      *)
C30_LookupFailureSkipsItem ==
    [][(last'.op = "process" /\ last'.oracle.detail = "raise")
       => /\ NewEvents = <<<<"lookup", last'.kind, idx', FALSE>>>>
          /\ cycle_results' = cycle_results
          /\ last'.analysis = NoCall]_vars

(* The lookup of the second item raised inside the data source, after a   *)
(* first item that was dispatched: one lookup event and the counters of   *)
(* the first item.                                                        *)
C30_Witness ==
    /\ last.op = "process"
    /\ last.oracle.detail = "raise"
    /\ idx = 2
    /\ calls[Len(calls)] = <<"lookup", last.kind, 2, FALSE>>
    /\ calls[Len(calls) - 1][1] = "log"
    /\ cycle_results.actions_executed = 1
    /\ cycle_results.errors = <<>>

====
